---- MODULE Spec2Model ----
(***************************************************************************)
(* Model of official/recommendation/data_pipeline.py: the NCF data         *)
(* constructor thread (BaseDataConstructor / MaterializedDataConstructor), *)
(* its pool workers, the shuffle producer it draws permutations from, the  *)
(* hand-off queue and the consumer's generators.                           *)
(*                                                                         *)
(* numpy arrays are sequences; Python's 0-based a[i] is At(a, i).          *)
(***************************************************************************)
EXTENDS Integers, Sequences, FiniteSets, TLC

VARIABLES
  args,                 \* the constructor's arguments (read-only after __init__)
  consumer,             \* what the training loop will do: generator calls, stop_loop
  variant,              \* "base" | "materialized": the class that was instantiated
  run_pc,               \* new, config_error, created, lookup, train, eval, done, failed
  epochs_started,       \* calls of _construct_training_epoch so far
  tasks_left,           \* map_args of the current pool.map not yet picked up
  inflight,             \* training workers between _get_order_chunk and queue.put
  current_epoch_order,  \* self._current_epoch_order (None before the first chunk)
  shuffle_producer,     \* self._shuffle_producer: created, started, stopped, taken
  stop_loop_flag,       \* self._stop_loop
  negative_table,       \* self._negative_table (<<>> while None)
  per_user_neg_count,   \* self._per_user_neg_count (<<>> while None)
  training_queue,       \* self._training_queue
  eval_partial,         \* results of the eval pool.map collected so far, by index
  eval_results,         \* self._eval_results (None until the eval epoch is stored)
  train_gen,            \* the consumer's training_generator call: pass and yields left
  eval_gen,             \* the consumer's eval_generator call: pc, position, pass
  drawn,                \* history: every index block handed out, in order
  label_counts,         \* history: per training epoch, the labels put on the queue
  delivered,            \* history: every batch the consumer received, in order
  eval_yielded,         \* history: the batches each eval_generator pass yielded
  eval_writes,          \* history: assignments made to self._eval_results
  lookup_call,          \* the last direct call of lookup_negative_items: users, items
  eval_completed,       \* history: the eval map_args in the order their workers finished
  count_call            \* a direct call of _count_batches: arguments and result

vars == <<args, consumer, variant, run_pc, epochs_started, tasks_left, inflight,
          current_epoch_order, shuffle_producer, stop_loop_flag, negative_table,
          per_user_neg_count, training_queue, eval_partial, eval_results,
          train_gen, eval_gen, drawn, label_counts, delivered, eval_yielded,
          eval_writes, lookup_call, eval_completed, count_call>>

-----------------------------------------------------------------------------
(* Bounds of the model.                                                    *)

MaxEpochs == 2
MaxUsers == 2
MaxItems == 3
MaxTrainPos == 3
\* calls of training_generator / eval_generator the consumer makes
MaxTrainPasses == 2
MaxEvalPasses == 2
\* largest argument of a direct call of _count_batches
MaxCountArg == 6

(* Program constants.                                                      *)

\* rconst.NUM_EVAL_NEGATIVES; the value of the spec's scenario.
NUM_EVAL_NEGATIVES == 2
\* multiprocessing.dummy.Pool(6)
POOL_SIZE == 6
\* np.iinfo(np.uint16).max
UINT16_MAX == 65535

\* Python's None for the array-valued attributes; never a valid array here.
None == <<-1>>

-----------------------------------------------------------------------------
(* numpy / Python helpers.                                                 *)

At(a, i) == a[i + 1]

Min(a, b) == IF a < b THEN a ELSE b

Max(a, b) == IF a > b THEN a ELSE b

\* a[lo:hi] for 0 <= lo, 0 <= hi (clipped to the array, empty when lo >= hi)
Slice(a, lo, hi) ==
  LET l == Min(lo, Len(a))
      h == Min(hi, Len(a))
  IN IF l >= h THEN <<>> ELSE [k \in 1..(h - l) |-> a[l + k]]

\* a[:n]
Take(a, n) == Slice(a, 0, n)

\* a[n:]
Drop(a, n) == Slice(a, n, Len(a))

Range(a) == {a[k] : k \in 1..Len(a)}

\* np.arange(n)
Arange(n) == [k \in 1..n |-> k - 1]

\* the elements of a at the (1-based) positions satisfying keep, in order
RECURSIVE SelectIdx(_, _, _)
SelectIdx(a, keep, k) ==
  IF k > Len(a) THEN <<>>
  ELSE (IF k \in keep THEN <<a[k]>> ELSE <<>>) \o SelectIdx(a, keep, k + 1)

\* np.delete(a, idx): a without the positions named in idx (each removed once)
NpDelete(a, idx) == SelectIdx(a, {k \in 1..Len(a) : (k - 1) \notin Range(idx)}, 1)

\* number of positions of a holding v
Count(a, v) == Cardinality({k \in 1..Len(a) : a[k] = v})

\* all orderings of 0..n-1
PermSeqs(n) == {s \in [1..n -> 0..(n - 1)] : \A i, j \in 1..n : s[i] = s[j] => i = j}

IsPermutation(s, n) == Len(s) = n /\ Range(s) = 0..(n - 1)

-----------------------------------------------------------------------------
(* BaseDataConstructor.__init__: sizes derived from the arguments.         *)

train_pos_count == Len(args.train_pos_users)

elements_in_epoch == (1 + args.num_train_negatives) * train_pos_count

\* faulty variant: the count is not rounded up to a multiple of batches_per_step
CountBatchesNoStepRounding(example_count, batch_size, batches_per_step) ==
  (example_count + batch_size - 1) \div batch_size

\* _count_batches
CountBatches(example_count, batch_size, batches_per_step) ==
  LET x == (example_count + batch_size - 1) \div batch_size
  IN ((x + batches_per_step - 1) \div batches_per_step) * batches_per_step

train_batches_per_epoch ==
  CountBatches(elements_in_epoch, args.train_batch_size, args.batches_per_train_step)

\* faulty variant: the divisibility check is left out
EvalBatchSizeErrorUnchecked == FALSE

\* the ValueError of __init__
EvalBatchSizeError == args.eval_batch_size % (1 + NUM_EVAL_NEGATIVES) # 0

eval_users_per_batch == args.eval_batch_size \div (1 + NUM_EVAL_NEGATIVES)

eval_elements_in_epoch == args.num_users * (1 + NUM_EVAL_NEGATIVES)

eval_batches_per_epoch ==
  CountBatches(eval_elements_in_epoch, args.eval_batch_size, args.batches_per_eval_step)

\* AsyncPermuter(..., num_to_produce=maximum_number_epochs+1)
num_to_produce == args.maximum_number_epochs + 1

-----------------------------------------------------------------------------
(* MaterializedDataConstructor.construct_lookup_variables                  *)

\* np.argwhere(users[1:] - users[:-1])[:, 0] + 1
inner_bounds ==
  SelectIdx(Arange(train_pos_count),
            {k \in 2..train_pos_count :
               args.train_pos_users[k] - args.train_pos_users[k - 1] # 0}, 1)

index_bounds == <<0>> \o inner_bounds \o <<args.num_users>>

\* positives of user i, as the loop slices them
Positives(i) == Slice(args.train_pos_items, At(index_bounds, i), At(index_bounds, i + 1))

\* one iteration of the loop: the negatives, the count, and the table row
LookupRow(i) ==
  LET positives == Positives(i)
      negatives == NpDelete(Arange(args.num_items), positives)
      cnt == args.num_items - Len(positives)
  IN [negatives |-> negatives,
      count |-> cnt,
      row |-> negatives \o [k \in 1..(args.num_items - Len(negatives)) |-> UINT16_MAX]]

\* the loop raises: index_bounds too short (IndexError), an item id outside
\* full_set (IndexError), or negatives not fitting the row slice (ValueError)
LookupRaises ==
  \/ Len(index_bounds) < args.num_users + 1
  \/ \E k \in 1..train_pos_count : args.train_pos_items[k] >= args.num_items
  \/ \E i \in 0..(args.num_users - 1) : Len(LookupRow(i).negatives) # LookupRow(i).count

NegativeTable == [u \in 1..args.num_users |-> LookupRow(u - 1).row]

PerUserNegCount == [u \in 1..args.num_users |-> LookupRow(u - 1).count]

-----------------------------------------------------------------------------
(* stat_utils: the sampler and the duplicate detector.                     *)

\* slightly_biased_randint(max_val_vector): the vectors it can return,
\* one index in [0, c) per count c
SlightlyBiasedRandint(max_val_vector) ==
  {ch \in [1..Len(max_val_vector) -> 0..(args.num_items - 1)] :
     \A k \in 1..Len(max_val_vector) : ch[k] < max_val_vector[k]}

\* mask_duplicates on one row: 1 where the entry equals an earlier one
MaskDuplicatesRow(row) ==
  [c \in 1..Len(row) |-> IF \E b \in 1..(c - 1) : row[b] = row[c] THEN 1 ELSE 0]

-----------------------------------------------------------------------------
(* MaterializedDataConstructor.lookup_negative_items                       *)

\* self._per_user_neg_count[negative_users]
NegCounts(negative_users) ==
  [k \in 1..Len(negative_users) |-> At(per_user_neg_count, negative_users[k])]

\* self._negative_table[negative_users, negative_item_choice]
LookupNegativeItems(negative_users, negative_item_choice) ==
  [k \in 1..Len(negative_users) |->
     At(At(negative_table, negative_users[k]), negative_item_choice[k])]

-----------------------------------------------------------------------------
(* BaseDataConstructor._get_order_chunk, after the None check: cur is the  *)
(* current order, fresh the permutation get() returns if it is called.     *)

NeedsRefill(cur) == Len(Drop(cur, args.train_batch_size)) = 0

\* faulty variant: the cursor advances one element short of the block
OrderChunkOverlap(cur, fresh) ==
  LET batch0 == Take(cur, args.train_batch_size)
      rest0 == Drop(cur, args.train_batch_size - 1)
  IN [batch_indices |-> batch0, order |-> rest0]

OrderChunk(cur, fresh) ==
  LET batch0 == Take(cur, args.train_batch_size)
      rest0 == Drop(cur, args.train_batch_size)
      cur1 == IF Len(rest0) = 0 THEN fresh ELSE rest0
      num_extra == args.train_batch_size - Len(batch0)
  IN IF num_extra # 0
       THEN [batch_indices |-> batch0 \o Take(cur1, num_extra),
             order |-> Drop(cur1, num_extra)]
       ELSE [batch_indices |-> batch0, order |-> cur1]

-----------------------------------------------------------------------------
(* BaseDataConstructor._get_training_batch, after the chunk is drawn.      *)

BatchIndMod(batch_indices) ==
  [k \in 1..Len(batch_indices) |-> batch_indices[k] % train_pos_count]

BatchUsers(batch_indices) ==
  [k \in 1..Len(batch_indices) |-> At(args.train_pos_users, BatchIndMod(batch_indices)[k])]

\* faulty variant: np.greater in place of np.greater_equal
NegativeIndicesStrict(batch_indices) ==
  {k \in 1..Len(batch_indices) : batch_indices[k] > train_pos_count}

\* np.greater_equal(batch_indices, self._train_pos_count), as the set of positions
NegativeIndices(batch_indices) ==
  {k \in 1..Len(batch_indices) : batch_indices[k] >= train_pos_count}

\* users[negative_indices]
NegativeUsers(batch_indices) ==
  SelectIdx(BatchUsers(batch_indices), NegativeIndices(batch_indices), 1)

\* faulty variant: items[negative_indices] = negative_items is left out
TrainingBatchItemsKept(batch_indices, negative_item_choice) ==
  [users |-> BatchUsers(batch_indices),
   items |-> [k \in 1..Len(batch_indices) |->
                At(args.train_pos_items, BatchIndMod(batch_indices)[k])],
   labels |-> [k \in 1..Len(batch_indices) |->
                 IF k \in NegativeIndices(batch_indices) THEN 0 ELSE 1]]

\* the (users, items, labels) tuple put on the queue
TrainingBatch(batch_indices, negative_item_choice) ==
  LET neg == NegativeIndices(batch_indices)
      negative_items == LookupNegativeItems(NegativeUsers(batch_indices),
                                            negative_item_choice)
      rank(k) == Cardinality({j \in neg : j <= k})
  IN [users |-> BatchUsers(batch_indices),
      items |-> [k \in 1..Len(batch_indices) |->
                   IF k \in neg THEN negative_items[rank(k)]
                   ELSE At(args.train_pos_items, BatchIndMod(batch_indices)[k])],
      labels |-> [k \in 1..Len(batch_indices) |-> IF k \in neg THEN 0 ELSE 1]]

-----------------------------------------------------------------------------
(* BaseDataConstructor._get_eval_batch                                     *)

RowWidth == 1 + NUM_EVAL_NEGATIVES

RECURSIVE Flatten(_)
Flatten(rows) == IF Len(rows) = 0 THEN <<>> ELSE Head(rows) \o Flatten(Tail(rows))

\* self._eval_pos_users[low_index:high_index]
EvalUserRange(i) ==
  Slice(args.eval_pos_users, i * eval_users_per_batch, (i + 1) * eval_users_per_batch)

EvalItemRange(i) ==
  Slice(args.eval_pos_items, i * eval_users_per_batch, (i + 1) * eval_users_per_batch)

\* users[:, :-1].flatten(): every user of the range NUM_EVAL_NEGATIVES times
EvalNegativeUsers(i) ==
  Flatten([r \in 1..Len(EvalUserRange(i)) |->
             [c \in 1..NUM_EVAL_NEGATIVES |-> EvalUserRange(i)[r]]])

\* x[:, (0, -1)] = x[:, (-1, 0)] on one row
SwapFirstLast(row) ==
  [c \in 1..Len(row) |->
     IF c = 1 THEN row[Len(row)] ELSE IF c = Len(row) THEN row[1] ELSE row[c]]

\* faulty variant: one pad row too few
PadRowsOffByOne(n) == IF n < eval_users_per_batch THEN eval_users_per_batch - n - 1 ELSE 0

\* pad_rows, 0 when the batch is full
PadRows(n) == IF n < eval_users_per_batch THEN eval_users_per_batch - n ELSE 0

Padding(n) == [r \in 1..PadRows(n) |-> [c \in 1..RowWidth |-> 0]]

\* faulty variant: the duplicate mask is computed on the row after the swap
MaskAfterSwap(row) == MaskDuplicatesRow(SwapFirstLast(row))

\* the duplicate mask of one pre-swap row, swapped like the items
MaskThenSwap(row) == SwapFirstLast(MaskDuplicatesRow(row))

\* row r of items before the swap: the positive, then the row's negatives
EvalRowPreSwap(i, r, negative_items) ==
  <<EvalItemRange(i)[r]>> \o
    [c \in 1..NUM_EVAL_NEGATIVES |-> negative_items[(r - 1) * NUM_EVAL_NEGATIVES + c]]

\* the (users, items, duplicate_mask) tuple, flattened
EvalBatch(i, negative_item_choice) ==
  LET urange == EvalUserRange(i)
      n == Len(urange)
      negative_items == LookupNegativeItems(EvalNegativeUsers(i), negative_item_choice)
      users == [r \in 1..n |-> [c \in 1..RowWidth |-> urange[r]]]
      items == [r \in 1..n |-> SwapFirstLast(EvalRowPreSwap(i, r, negative_items))]
      mask == [r \in 1..n |-> MaskThenSwap(EvalRowPreSwap(i, r, negative_items))]
  IN [users |-> Flatten(users \o Padding(n)),
      items |-> Flatten(items \o Padding(n)),
      duplicate_mask |-> Flatten(mask \o Padding(n))]

-----------------------------------------------------------------------------
(* The arguments the model is run on.                                      *)

\* (users, items) training interactions: sorted by user, every user of
\* 0..nu-1 present, no pair twice, every user left with a negative
Interactions(nu, ni, n) ==
  {d \in [users : [1..n -> 0..(nu - 1)], items : [1..n -> 0..(ni - 1)]] :
     /\ \A k \in 1..(n - 1) : d.users[k] <= d.users[k + 1]
     /\ \A k \in 1..(n - 1) : d.users[k] = d.users[k + 1] => d.items[k] < d.items[k + 1]
     /\ Range(d.users) = 0..(nu - 1)
     /\ \A u \in 0..(nu - 1) : Count(d.users, u) < ni}

\* one held-out positive per user, in user order, not among the training positives
EvalItems(nu, ni, d) ==
  {e \in [1..nu -> 0..(ni - 1)] :
     \A u \in 1..nu : \A k \in 1..Len(d.users) : d.users[k] = u - 1 => d.items[k] # e[u]}

Args(me, nu, ni, d, tb, ts, nn, e, eb, es) ==
  [maximum_number_epochs |-> me, num_users |-> nu, num_items |-> ni,
   train_pos_users |-> d.users, train_pos_items |-> d.items,
   train_batch_size |-> tb, batches_per_train_step |-> ts,
   num_train_negatives |-> nn,
   eval_pos_users |-> Arange(nu), eval_pos_items |-> e,
   eval_batch_size |-> eb, batches_per_eval_step |-> es]

\* the training loop's side of a run: how often it calls each generator and
\* whether it calls stop_loop()
Consumer(tp, ep, st) == [train_passes |-> tp, eval_passes |-> ep, stops |-> st]

Run(a, c, v) == [args |-> a, consumer |-> c, variant |-> v]

\* runs on which _get_order_chunk cuts a 4-element epoch into 2-element blocks
ChunkRuns ==
  {Run(Args(2, 2, 2, [users |-> <<0, 1>>, items |-> <<0, 1>>], 2, 1, 1, <<1, 0>>, 6, 1),
       Consumer(0, 0, FALSE), "materialized")}

\* runs of a 2-element epoch (one positive, one negative) with a consumer:
\* batch size and step dividing the epoch, rounding it up, spilling over it
SmallRuns ==
  {Run(Args(me, 1, 3, [users |-> <<0>>, items |-> <<1>>], bs[1], bs[2], 1, <<0>>, 3, 1),
       Consumer(MaxTrainPasses, 1, TRUE), "materialized") :
     me \in 1..MaxEpochs, bs \in {<<1, 1>>, <<2, 2>>, <<3, 1>>}}

\* runs of the base class, whose hooks raise NotImplementedError
BaseRuns ==
  {Run(Args(1, 1, 3, [users |-> <<0>>, items |-> <<1>>], 1, 1, 1, <<0>>, 3, 1),
       Consumer(1, 1, TRUE), "base")}

\* runs of a 1-element epoch (one positive, no negatives) cut into blocks of 3:
\* train_batch_size exceeds what is left of one permutation plus the next
OversizeRuns ==
  {Run(Args(me, 1, 3, [users |-> <<0>>, items |-> <<1>>], 3, 1, 0, <<0>>, 3, 1),
       Consumer(0, 0, FALSE), "materialized") :
     me \in 1..MaxEpochs}

TrainRuns == ChunkRuns \cup SmallRuns \cup BaseRuns \cup OversizeRuns

\* runs with one training positive (item 0) and one held-out positive (item 1)
\* per user: eval batches that are full, partly padding and all padding
PadRuns ==
  {Run(Args(1, nu, 3, [users |-> Arange(nu), items |-> [u \in 1..nu |-> 0]], nu, 1, 0,
            [u \in 1..nu |-> 1], eb, es),
       Consumer(0, IF es = 1 THEN MaxEvalPasses ELSE 1, FALSE), "materialized") :
     nu \in 1..MaxUsers, eb \in {3, 6}, es \in {1, 2}}

\* the scenario of the specification: 5 users, eval_batch_size 6
ScenarioRuns ==
  {Run(Args(1, 5, 2, [users |-> Arange(5), items |-> [u \in 1..5 |-> 0]], 5, 1, 0,
            [u \in 1..5 |-> 1], 6, 1),
       Consumer(0, 0, FALSE), "materialized")}

\* a run whose consumer also reads the training queue and stops the loop
StoppedRuns ==
  {Run(Args(1, 1, 3, [users |-> <<0>>, items |-> <<0>>], 1, 1, 0, <<1>>, 3, 1),
       Consumer(1, 1, TRUE), "materialized")}

\* runs whose eval_batch_size is not a multiple of 1 + NUM_EVAL_NEGATIVES
ConfigErrorRuns ==
  {Run(Args(1, 1, 3, [users |-> <<0>>, items |-> <<0>>], 1, 1, 0, <<1>>, eb, 1),
       Consumer(1, 1, TRUE), "materialized") :
     eb \in {1, 4, 5}}

EvalRuns == PadRuns \cup ScenarioRuns \cup StoppedRuns \cup ConfigErrorRuns

\* runs over every small interaction set, for the negative lookup table
LookupRuns ==
  {Run(Args(1, nu, ni, d, 1, 1, 1, CHOOSE e \in EvalItems(nu, ni, d) : TRUE, 3, 1),
       Consumer(0, 0, FALSE), "materialized") :
     <<nu, ni, d>> \in
       UNION {UNION {{<<nu_, ni_, d_>> : d_ \in Interactions(nu_, ni_, n_)} :
                       n_ \in nu_..MaxTrainPos} :
                <<nu_, ni_>> \in (1..MaxUsers) \X (2..MaxItems)}}

-----------------------------------------------------------------------------
(* State after the object is allocated, before __init__ runs.              *)

InitWith(runs) ==
  /\ \E r \in runs : args = r.args /\ consumer = r.consumer /\ variant = r.variant
  /\ run_pc = "new"
  /\ epochs_started = 0
  /\ tasks_left = 0
  /\ inflight = {}
  /\ current_epoch_order = None
  /\ shuffle_producer = [created |-> FALSE, started |-> FALSE, stopped |-> FALSE, taken |-> 0]
  /\ stop_loop_flag = FALSE
  /\ negative_table = <<>>
  /\ per_user_neg_count = <<>>
  /\ training_queue = <<>>
  /\ eval_partial = <<>>
  /\ eval_results = [none |-> TRUE, batches |-> <<>>]
  /\ train_gen = [active |-> FALSE, left |-> 0, pass |-> 0]
  /\ eval_gen = [pc |-> "idle", pos |-> 0, pass |-> 0, list |-> <<>>]
  /\ drawn = <<>>
  /\ label_counts = [e \in 1..args.maximum_number_epochs |-> [ones |-> 0, zeros |-> 0]]
  /\ delivered = <<>>
  /\ eval_yielded = <<>>
  /\ eval_writes = 0
  /\ lookup_call = [users |-> <<>>, items |-> <<>>]
  /\ eval_completed = <<>>

\* no direct call of _count_batches is made
NoCountCall ==
  [example_count |-> 0, batch_size |-> 0, batches_per_step |-> 0,
   returned |-> FALSE, result |-> 0]

Init == InitWith(TrainRuns) /\ count_call = NoCountCall

InitEval == InitWith(EvalRuns) /\ count_call = NoCountCall

InitLookup == InitWith(LookupRuns) /\ count_call = NoCountCall

\* the calls _count_batches(example_count, batch_size, batches_per_step) with
\* positive arguments, before they return
CountCalls ==
  {[example_count |-> e, batch_size |-> b, batches_per_step |-> s,
    returned |-> FALSE, result |-> 0] :
     e \in 1..MaxCountArg, b \in 1..MaxCountArg, s \in 1..MaxCountArg}

InitCount == InitWith(BaseRuns) /\ count_call \in CountCalls

-----------------------------------------------------------------------------
(* __init__, Thread.start() and run()                                      *)

\* BaseDataConstructor.__init__ (and the subclass's): the ValueError, or the
\* shuffle producer and the queue created
Construct ==
  /\ run_pc = "new"
  /\ IF EvalBatchSizeError
       THEN /\ run_pc' = "config_error"
            /\ UNCHANGED shuffle_producer
       ELSE /\ run_pc' = "created"
            /\ shuffle_producer' = [shuffle_producer EXCEPT !.created = TRUE]
  /\ UNCHANGED <<args, consumer, variant, epochs_started, tasks_left, inflight,
                 current_epoch_order, stop_loop_flag, negative_table,
                 per_user_neg_count, training_queue, eval_partial, eval_results,
                 train_gen, eval_gen, drawn, label_counts, delivered, eval_yielded,
                 eval_writes, lookup_call, eval_completed, count_call>>

\* start(): run() begins with self._shuffle_producer.start()
Start ==
  /\ run_pc = "created"
  /\ run_pc' = "lookup"
  /\ shuffle_producer' = [shuffle_producer EXCEPT !.started = TRUE]
  /\ UNCHANGED <<args, consumer, variant, epochs_started, tasks_left, inflight,
                 current_epoch_order, stop_loop_flag, negative_table,
                 per_user_neg_count, training_queue, eval_partial, eval_results,
                 train_gen, eval_gen, drawn, label_counts, delivered, eval_yielded,
                 eval_writes, lookup_call, eval_completed, count_call>>

\* run(): self.construct_lookup_variables(), then the first
\* _construct_training_epoch() hands its map_args to the pool
ConstructLookupVariables ==
  /\ run_pc = "lookup"
  /\ IF variant = "base" \/ LookupRaises
       THEN /\ run_pc' = "failed"
            /\ UNCHANGED <<negative_table, per_user_neg_count, epochs_started, tasks_left>>
       ELSE /\ negative_table' = NegativeTable
            /\ per_user_neg_count' = PerUserNegCount
            /\ run_pc' = "train"
            /\ epochs_started' = 1
            /\ tasks_left' = train_batches_per_epoch
  /\ UNCHANGED <<args, consumer, variant, inflight, current_epoch_order, shuffle_producer,
                 stop_loop_flag, training_queue, eval_partial, eval_results,
                 train_gen, eval_gen, drawn, label_counts, delivered, eval_yielded,
                 eval_writes, lookup_call, eval_completed, count_call>>

\* faulty variant: the eval epoch is constructed after the last training epoch
AfterTrainingEpochEvalLast ==
  IF epochs_started < args.maximum_number_epochs THEN "train" ELSE "eval"

\* what run() does after a training epoch's pool.map has returned
AfterTrainingEpoch ==
  IF epochs_started = 1 THEN "eval"
  ELSE IF epochs_started < args.maximum_number_epochs THEN "train" ELSE "done"

\* what run() does after _construct_eval_epoch has returned
AfterEvalEpoch ==
  IF epochs_started < args.maximum_number_epochs THEN "train" ELSE "done"

-----------------------------------------------------------------------------
(* The pool workers of _construct_training_epoch                           *)

ShuffleCanGet(n) ==
  /\ shuffle_producer.started
  /\ shuffle_producer.taken + n <= num_to_produce

\* the calls of self._shuffle_producer.get() the next _get_order_chunk makes:
\* one if the order is None, one if the block leaves the order empty
GetsOfNextChunk ==
  IF current_epoch_order = None
    THEN 1 + (IF elements_in_epoch <= args.train_batch_size THEN 1 ELSE 0)
    ELSE IF NeedsRefill(current_epoch_order) THEN 1 ELSE 0

\* _get_training_batch up to the return of _get_order_chunk: one critical
\* section of self._current_epoch_order_lock
GetOrderChunk ==
  /\ run_pc = "train"
  /\ tasks_left > 0
  /\ Cardinality(inflight) < POOL_SIZE
  /\ LET was_none == current_epoch_order = None
     IN \E first \in (IF was_none THEN PermSeqs(elements_in_epoch)
                                  ELSE {current_epoch_order}) :
          LET refill == NeedsRefill(first)
              gets == (IF was_none THEN 1 ELSE 0) + (IF refill THEN 1 ELSE 0)
          IN /\ ShuffleCanGet(gets)
             /\ \E fresh \in (IF refill THEN PermSeqs(elements_in_epoch) ELSE {<<>>}) :
                  LET c == OrderChunk(first, fresh)
                  IN /\ current_epoch_order' = c.order
                     /\ inflight' = inflight \cup
                          {[id |-> Len(drawn) + 1, epoch |-> epochs_started,
                            batch_indices |-> c.batch_indices]}
                     /\ drawn' = Append(drawn, c.batch_indices)
             /\ shuffle_producer' =
                  [shuffle_producer EXCEPT !.taken = shuffle_producer.taken + gets]
  /\ tasks_left' = tasks_left - 1
  /\ UNCHANGED <<args, consumer, variant, run_pc, epochs_started, stop_loop_flag,
                 negative_table, per_user_neg_count, training_queue, eval_partial,
                 eval_results, train_gen, eval_gen, label_counts, delivered,
                 eval_yielded, eval_writes, lookup_call, eval_completed, count_call>>

\* faulty variant: the queue is kept in the order the blocks were drawn
QueueAfterPutInDrawOrder(entry) ==
  LET before == SelectIdx(training_queue,
                          {k \in 1..Len(training_queue) : training_queue[k].id < entry.id}, 1)
      after == SelectIdx(training_queue,
                         {k \in 1..Len(training_queue) : training_queue[k].id > entry.id}, 1)
  IN before \o <<entry>> \o after

\* what self._training_queue.put(entry) leaves on the queue
QueueAfterPut(entry) == Append(training_queue, entry)

\* the rest of _get_training_batch: the batch is built and put on the queue
PutTrainingBatch ==
  /\ \E w \in inflight :
       \E choice \in SlightlyBiasedRandint(NegCounts(NegativeUsers(w.batch_indices))) :
         LET b == TrainingBatch(w.batch_indices, choice)
             entry == [id |-> w.id, epoch |-> w.epoch,
                       batch_indices |-> w.batch_indices,
                       users |-> b.users, items |-> b.items, labels |-> b.labels]
         IN /\ training_queue' = QueueAfterPut(entry)
            /\ label_counts' =
                 [label_counts EXCEPT ![w.epoch] =
                    [ones |-> @.ones + Count(b.labels, 1),
                     zeros |-> @.zeros + Count(b.labels, 0)]]
            /\ inflight' = inflight \ {w}
  /\ UNCHANGED <<args, consumer, variant, run_pc, epochs_started, tasks_left,
                 current_epoch_order, shuffle_producer, stop_loop_flag,
                 negative_table, per_user_neg_count, eval_partial, eval_results,
                 train_gen, eval_gen, drawn, delivered, eval_yielded, eval_writes, lookup_call, eval_completed, count_call>>

\* faulty variant: the epoch ends when the last map_arg is picked up, not when it is done
PoolMapReturnsEarly == tasks_left = 0

\* pool.map returns once every map_arg has been processed
PoolMapReturns == tasks_left = 0 /\ inflight = {}

\* _construct_training_epoch returns and run() moves on
FinishTrainingEpoch ==
  /\ run_pc = "train"
  /\ PoolMapReturns
  /\ run_pc' = AfterTrainingEpoch
  /\ IF AfterTrainingEpoch = "train"
       THEN /\ epochs_started' = epochs_started + 1
            /\ tasks_left' = train_batches_per_epoch
       ELSE UNCHANGED <<epochs_started, tasks_left>>
  /\ UNCHANGED <<args, consumer, variant, inflight, current_epoch_order, shuffle_producer,
                 stop_loop_flag, negative_table, per_user_neg_count,
                 training_queue, eval_partial, eval_results, train_gen, eval_gen,
                 drawn, label_counts, delivered, eval_yielded, eval_writes, lookup_call, eval_completed, count_call>>

-----------------------------------------------------------------------------
(* The pool workers of _construct_eval_epoch                               *)

EvalMapArgs == 0..(eval_batches_per_epoch - 1)

\* one worker finishes _get_eval_batch(i); pool.map keeps the result at index i
GetEvalBatch ==
  /\ run_pc = "eval"
  /\ \E i \in EvalMapArgs \ DOMAIN eval_partial :
       \E choice \in SlightlyBiasedRandint(NegCounts(EvalNegativeUsers(i))) :
         /\ eval_partial' = eval_partial @@ (i :> EvalBatch(i, choice))
         /\ eval_completed' = Append(eval_completed, i)
  /\ UNCHANGED <<args, consumer, variant, run_pc, epochs_started, tasks_left, inflight,
                 current_epoch_order, shuffle_producer, stop_loop_flag,
                 negative_table, per_user_neg_count, training_queue, eval_results,
                 train_gen, eval_gen, drawn, label_counts, delivered, eval_yielded,
                 eval_writes, lookup_call, count_call>>

\* faulty variant: the results are kept in the opposite order
EvalResultsReversed ==
  [k \in 1..eval_batches_per_epoch |-> eval_partial[eval_batches_per_epoch - k]]

\* the list pool.map returns: the results in map_args order
EvalResultsInOrder == [k \in 1..eval_batches_per_epoch |-> eval_partial[k - 1]]

\* pool.map returns, self._eval_results is assigned, run() moves on
FinishEvalEpoch ==
  /\ run_pc = "eval"
  /\ DOMAIN eval_partial = EvalMapArgs
  /\ eval_results' = [none |-> FALSE, batches |-> EvalResultsInOrder]
  /\ eval_writes' = eval_writes + 1
  /\ run_pc' = AfterEvalEpoch
  /\ IF AfterEvalEpoch = "train"
       THEN /\ epochs_started' = epochs_started + 1
            /\ tasks_left' = train_batches_per_epoch
       ELSE UNCHANGED <<epochs_started, tasks_left>>
  /\ UNCHANGED <<args, consumer, variant, inflight, current_epoch_order, shuffle_producer,
                 stop_loop_flag, negative_table, per_user_neg_count,
                 training_queue, eval_partial, train_gen, eval_gen, drawn,
                 label_counts, delivered, eval_yielded, lookup_call, eval_completed, count_call>>

-----------------------------------------------------------------------------
(* The consumer                                                            *)

Constructed == run_pc \notin {"new", "config_error"}

\* stop_loop()
StopLoop ==
  /\ Constructed
  /\ consumer.stops
  /\ ~stop_loop_flag
  /\ shuffle_producer' = [shuffle_producer EXCEPT !.stopped = TRUE]
  /\ stop_loop_flag' = TRUE
  /\ UNCHANGED <<args, consumer, variant, run_pc, epochs_started, tasks_left, inflight,
                 current_epoch_order, negative_table, per_user_neg_count,
                 training_queue, eval_partial, eval_results, train_gen, eval_gen,
                 drawn, label_counts, delivered, eval_yielded, eval_writes, lookup_call, eval_completed, count_call>>

\* a call of training_generator(): range(self._train_batches_per_epoch)
TrainingGeneratorCall ==
  /\ Constructed
  /\ ~train_gen.active
  /\ train_gen.pass < consumer.train_passes
  /\ train_gen' = [active |-> train_batches_per_epoch > 0,
                   left |-> train_batches_per_epoch,
                   pass |-> train_gen.pass + 1]
  /\ UNCHANGED <<args, consumer, variant, run_pc, epochs_started, tasks_left, inflight,
                 current_epoch_order, shuffle_producer, stop_loop_flag,
                 negative_table, per_user_neg_count, training_queue, eval_partial,
                 eval_results, eval_gen, drawn, label_counts, delivered, eval_yielded,
                 eval_writes, lookup_call, eval_completed, count_call>>

\* faulty variant: the head is read but not removed
QueueAfterPeek == training_queue

\* what queue.get() leaves on the queue
QueueAfterGet == Tail(training_queue)

\* yield self._training_queue.get(): blocks while the queue is empty
TrainingGeneratorNext ==
  /\ train_gen.active
  /\ training_queue # <<>>
  /\ delivered' = Append(delivered, [pass |-> train_gen.pass,
                                      id |-> Head(training_queue).id,
                                      epoch |-> Head(training_queue).epoch])
  /\ training_queue' = QueueAfterGet
  /\ train_gen' = [train_gen EXCEPT !.left = train_gen.left - 1,
                                    !.active = train_gen.left > 1]
  /\ UNCHANGED <<args, consumer, variant, run_pc, epochs_started, tasks_left, inflight,
                 current_epoch_order, shuffle_producer, stop_loop_flag,
                 negative_table, per_user_neg_count, eval_partial, eval_results,
                 eval_gen, drawn, label_counts, eval_yielded, eval_writes, lookup_call, eval_completed, count_call>>

\* a call of eval_generator() enters the polling loop
EvalGeneratorCall ==
  /\ Constructed
  /\ eval_gen.pc = "idle"
  /\ eval_gen.pass < consumer.eval_passes
  /\ eval_gen' = [pc |-> "waiting", pos |-> 0, pass |-> eval_gen.pass + 1, list |-> <<>>]
  /\ eval_yielded' = Append(eval_yielded, <<>>)
  /\ UNCHANGED <<args, consumer, variant, run_pc, epochs_started, tasks_left, inflight,
                 current_epoch_order, shuffle_producer, stop_loop_flag,
                 negative_table, per_user_neg_count, training_queue, eval_partial,
                 eval_results, train_gen, drawn, label_counts, delivered, eval_writes, lookup_call, eval_completed, count_call>>

\* faulty variant: the generator does not wait for the result
EvalResultsIsNoneSkipped == FALSE

\* the condition of the polling loop: self._eval_results is None
EvalResultsIsNone == eval_results.none

\* the while loop sees self._eval_results set; the for loop takes the list
EvalGeneratorWake ==
  /\ eval_gen.pc = "waiting"
  /\ ~EvalResultsIsNone
  /\ eval_gen' = [eval_gen EXCEPT !.pc = IF Len(eval_results.batches) = 0
                                          THEN "idle" ELSE "iterating",
                                  !.list = eval_results.batches]
  /\ UNCHANGED <<args, consumer, variant, run_pc, epochs_started, tasks_left, inflight,
                 current_epoch_order, shuffle_producer, stop_loop_flag,
                 negative_table, per_user_neg_count, training_queue, eval_partial,
                 eval_results, train_gen, drawn, label_counts, delivered, eval_yielded,
                 eval_writes, lookup_call, eval_completed, count_call>>

\* yield i
EvalGeneratorNext ==
  /\ eval_gen.pc = "iterating"
  /\ eval_yielded' = [eval_yielded EXCEPT ![eval_gen.pass] =
                        Append(@, eval_gen.list[eval_gen.pos + 1])]
  /\ eval_gen' = [eval_gen EXCEPT !.pos = eval_gen.pos + 1,
                                  !.pc = IF eval_gen.pos + 1 = Len(eval_gen.list)
                                           THEN "idle" ELSE "iterating"]
  /\ UNCHANGED <<args, consumer, variant, run_pc, epochs_started, tasks_left, inflight,
                 current_epoch_order, shuffle_producer, stop_loop_flag,
                 negative_table, per_user_neg_count, training_queue, eval_partial,
                 eval_results, train_gen, drawn, label_counts, delivered, eval_writes, lookup_call, eval_completed, count_call>>

-----------------------------------------------------------------------------

Next ==
  \/ Construct
  \/ Start
  \/ ConstructLookupVariables
  \/ GetOrderChunk
  \/ PutTrainingBatch
  \/ FinishTrainingEpoch
  \/ GetEvalBatch
  \/ FinishEvalEpoch
  \/ StopLoop
  \/ TrainingGeneratorCall
  \/ TrainingGeneratorNext
  \/ EvalGeneratorCall
  \/ EvalGeneratorWake
  \/ EvalGeneratorNext

Spec == Init /\ [][Next]_vars

\* the same program on the runs that exercise the eval side
SpecEval == InitEval /\ [][Next]_vars

\* a direct call lookup_negative_items(negative_users=[u]) once the table is built
LookupNegativeItemsCall ==
  /\ variant = "materialized"
  /\ negative_table # <<>>
  /\ \E u \in 0..(args.num_users - 1) :
       \E choice \in SlightlyBiasedRandint(NegCounts(<<u>>)) :
         lookup_call' = [users |-> <<u>>, items |-> LookupNegativeItems(<<u>>, choice)]
  /\ UNCHANGED <<args, consumer, variant, run_pc, epochs_started, tasks_left, inflight,
                 current_epoch_order, shuffle_producer, stop_loop_flag,
                 negative_table, per_user_neg_count, training_queue, eval_partial,
                 eval_results, train_gen, eval_gen, drawn, label_counts, delivered,
                 eval_yielded, eval_writes, eval_completed, count_call>>

NextLookup ==
  \/ Construct
  \/ Start
  \/ ConstructLookupVariables
  \/ LookupNegativeItemsCall

\* construct_lookup_variables and lookup_negative_items on their own, over
\* every small interaction set
SpecLookup == InitLookup /\ [][NextLookup]_vars

\* _count_batches called on its own and returning
CountBatchesCall ==
  /\ ~count_call.returned
  /\ count_call' =
       [count_call EXCEPT
          !.returned = TRUE,
          !.result = CountBatches(count_call.example_count, count_call.batch_size,
                                  count_call.batches_per_step)]
  /\ UNCHANGED <<args, consumer, variant, run_pc, epochs_started, tasks_left, inflight,
                 current_epoch_order, shuffle_producer, stop_loop_flag,
                 negative_table, per_user_neg_count, training_queue, eval_partial,
                 eval_results, train_gen, eval_gen, drawn, label_counts, delivered,
                 eval_yielded, eval_writes, lookup_call, eval_completed>>

NextCount == CountBatchesCall

\* _count_batches on its own, over every small triple of positive arguments
SpecCount == InitCount /\ [][NextCount]_vars

-----------------------------------------------------------------------------
(* Properties of the training side, checked under Spec.                    *)

BatchDividesEpoch ==
  elements_in_epoch > 0 /\ elements_in_epoch % args.train_batch_size = 0

BlocksPerEpoch == elements_in_epoch \div args.train_batch_size

\* the indices of the k-th run of BlocksPerEpoch consecutive blocks handed out
Tile(k) == Flatten(SubSeq(drawn, (k - 1) * BlocksPerEpoch + 1,
                          Min(k * BlocksPerEpoch, Len(drawn))))

NoRepeats(a) == \A i, j \in 1..Len(a) : a[i] = a[j] => i = j

\* C1: when train_batch_size divides the epoch size, the blocks handed out by
\* _get_order_chunk that tile one epoch form a permutation of [0, epoch_size),
\* whatever the interleaving of the workers: every complete tile is a
\* permutation and the tile being handed out holds no index twice, also after
\* the roll-over to the next permutation.
C1_BlocksTilePermutation ==
  BatchDividesEpoch =>
    /\ \A k \in 1..(Len(drawn) \div BlocksPerEpoch) :
         IsPermutation(Tile(k), elements_in_epoch)
    /\ LET part == Tile(Len(drawn) \div BlocksPerEpoch + 1)
       IN NoRepeats(part) /\ Range(part) \subseteq 0..(elements_in_epoch - 1)

\* two workers hold blocks at once and two whole tiles of two blocks are out
C1_Witness ==
  /\ BatchDividesEpoch
  /\ args.train_batch_size = 2
  /\ BlocksPerEpoch = 2
  /\ Len(drawn) = 4
  /\ Cardinality(inflight) = 2

\* _construct_training_epoch number e has returned
EpochConstructed(e) ==
  \/ e < epochs_started
  \/ e = epochs_started /\ run_pc \in {"eval", "done"}

ExactLabelCounts(e) ==
  label_counts[e] = [ones |-> train_pos_count,
                     zeros |-> args.num_train_negatives * train_pos_count]

\* C2 (as claimed): every constructed training epoch put exactly num_positive
\* labels 1 and neg_ratio * num_positive labels 0 on the queue, for every batch
\* size and batches_per_train_step.
C2_ExactCountsEveryEpoch ==
  \A e \in 1..args.maximum_number_epochs : EpochConstructed(e) => ExactLabelCounts(e)

BatchesTileEpoch ==
  train_batches_per_epoch * args.train_batch_size = elements_in_epoch

\* C2 (amended): when train_batches_per_epoch * train_batch_size equals the
\* epoch size, every constructed training epoch put exactly num_positive
\* labels 1 and neg_ratio * num_positive labels 0 on the queue.
C2_ExactCountsWhenBatchesTileEpoch ==
  BatchesTileEpoch =>
    \A e \in 1..args.maximum_number_epochs : EpochConstructed(e) => ExactLabelCounts(e)

\* the second epoch of a run whose batches tile the epoch has been constructed
C2_Witness ==
  /\ BatchesTileEpoch
  /\ train_batches_per_epoch = 2
  /\ EpochConstructed(2)
  /\ label_counts[2].ones = 1 /\ label_counts[2].zeros = 1

\* the entries lookup_negative_items can return for user u
SampledFor(u) ==
  {At(At(negative_table, u), j) : j \in 0..(At(per_user_neg_count, u) - 1)}

\* C4: in every training batch on the queue, position i with epoch index k has
\* users[i] = pos_users[k mod num_positive]; k < num_positive gives label 1 and
\* items[i] = pos_items[k]; k >= num_positive gives label 0 and an item sampled
\* from the negatives of users[i].
C4_TrainingBatchMapping ==
  \A q \in 1..Len(training_queue) :
    LET b == training_queue[q]
    IN /\ Len(b.users) = Len(b.batch_indices)
       /\ Len(b.items) = Len(b.batch_indices)
       /\ Len(b.labels) = Len(b.batch_indices)
       /\ \A i \in 1..Len(b.batch_indices) :
            LET k == b.batch_indices[i]
            IN /\ b.users[i] = At(args.train_pos_users, k % train_pos_count)
               /\ k < train_pos_count =>
                    b.labels[i] = 1 /\ b.items[i] = At(args.train_pos_items, k)
               /\ k >= train_pos_count =>
                    b.labels[i] = 0 /\ b.items[i] \in SampledFor(b.users[i])

\* a queued batch holds a positive of one user and a negative of another
C4_Witness ==
  \E q \in 1..Len(training_queue) :
    LET b == training_queue[q]
    IN /\ Len(b.labels) = 2
       /\ b.labels[1] # b.labels[2]
       /\ b.users[1] # b.users[2]

\* C5 (as claimed): once stop_loop() has set the stop flag, run() starts no
\* further training-epoch construction after the one in progress.
C5_NoEpochStartsAfterStop ==
  [][(stop_loop_flag /\ epochs_started >= 1) => epochs_started' = epochs_started]_vars

\* C6 (as claimed): after the background thread has died of a construction
\* failure, a consumer inside training_generator or eval_generator gets on
\* (the failure reaches it); it is not left waiting on the empty queue or on
\* the eval result that will never be set.
C6_FailureReachesConsumer ==
  run_pc = "failed" =>
    /\ train_gen.active => ENABLED TrainingGeneratorNext
    /\ eval_gen.pc = "waiting" => ENABLED EvalGeneratorWake

\* ids of the batches put on the queue so far
PutIds == (1..Len(drawn)) \ {w.id : w \in inflight}

\* ids of the batches the consumer received, then of those still queued
HandledIds ==
  [k \in 1..Len(delivered) |-> delivered[k].id] \o
    [k \in 1..Len(training_queue) |-> training_queue[k].id]

YieldedIn(p) == {k \in 1..Len(delivered) : delivered[k].pass = p}

\* C7: a call of training_generator yields exactly train_batches_per_epoch
\* batches, and every batch put on the queue is either still queued or was
\* received by the consumer exactly once: none twice, none lost, none received
\* that was not put.
C7_EachBatchDeliveredOnce ==
  /\ NoRepeats(HandledIds)
  /\ Range(HandledIds) = PutIds
  /\ \A p \in 1..train_gen.pass :
       Cardinality(YieldedIn(p)) =
         IF p = train_gen.pass THEN train_batches_per_epoch - train_gen.left
         ELSE train_batches_per_epoch
  /\ train_gen.active <=> train_gen.left > 0

\* two calls of training_generator have completed, of two batches each
C7_Witness ==
  /\ train_gen.pass = 2
  /\ ~train_gen.active
  /\ train_batches_per_epoch = 2
  /\ Len(delivered) = 4

\* ids of the batches constructed in training epoch n
EpochIds(n) == ((n - 1) * train_batches_per_epoch + 1)..(n * train_batches_per_epoch)

\* C8: the n-th call of training_generator receives only batches constructed
\* during the n-th training epoch, and once complete it has received all of them.
C8_PassYieldsItsEpoch ==
  /\ \A k \in 1..Len(delivered) : delivered[k].epoch = delivered[k].pass
  /\ \A p \in 1..train_gen.pass :
       (p < train_gen.pass \/ ~train_gen.active) =>
         {delivered[k].id : k \in YieldedIn(p)} = EpochIds(p)

\* the second call has completed and received the last batch of the second epoch
C8_Witness ==
  /\ train_gen.pass = 2
  /\ ~train_gen.active
  /\ train_batches_per_epoch = 2
  /\ \E k \in 1..Len(delivered) : delivered[k].epoch = 2 /\ delivered[k].id = 4

\* C17: run() starts the shuffle stream, builds the lookup table, constructs
\* training epoch 1, then the eval epoch, then the remaining training epochs;
\* the eval epoch is constructed exactly once per run; and the eval result is
\* set only after every batch of training epoch 1 was put on the hand-off
\* queue and before any block of training epoch 2 is drawn.
C17_RunOrder ==
  /\ negative_table # <<>> => shuffle_producer.started
  /\ epochs_started >= 1 => negative_table # <<>>
  /\ run_pc = "eval" => epochs_started = 1 /\ eval_results.none /\ eval_writes = 0
  /\ eval_writes <= 1
  /\ ~eval_results.none =>
       /\ eval_writes = 1
       /\ EpochIds(1) \subseteq PutIds
       /\ label_counts[1].ones + label_counts[1].zeros > 0
  /\ eval_results.none =>
       /\ epochs_started <= 1
       /\ Len(drawn) <= train_batches_per_epoch
       /\ \A e \in 2..args.maximum_number_epochs :
            label_counts[e] = [ones |-> 0, zeros |-> 0]
  /\ run_pc = "done" =>
       /\ eval_writes = 1
       /\ epochs_started = args.maximum_number_epochs
       /\ EpochIds(args.maximum_number_epochs) \subseteq PutIds

\* a run of two epochs is over: the eval epoch was stored once, between them
C17_Witness ==
  /\ args.maximum_number_epochs = 2
  /\ run_pc = "done"
  /\ eval_writes = 1
  /\ epochs_started = 2
  /\ label_counts[2].ones + label_counts[2].zeros > 0

\* C19: the order of the hand-off queue is the order in which the workers
\* complete their batches, not the order in which their blocks were drawn:
\* the queue changes only by a worker that held a block appending its batch
\* at the tail, or by the consumer receiving the batch at the head.
C19_QueueOrderIsCompletionOrder ==
  [][\/ /\ training_queue # <<>>
        /\ training_queue' = Tail(training_queue)
        /\ Len(delivered') = Len(delivered) + 1
        /\ delivered'[Len(delivered')].id = Head(training_queue).id
     \/ \E w \in inflight :
          /\ w \notin inflight'
          /\ Len(training_queue') = Len(training_queue) + 1
          /\ SubSeq(training_queue', 1, Len(training_queue)) = training_queue
          /\ training_queue'[Len(training_queue')].id = w.id
          /\ training_queue'[Len(training_queue')].batch_indices = w.batch_indices
    ]_training_queue

\* the batch whose block was drawn second was enqueued and delivered before
\* the batch whose block was drawn first
C19_Witness ==
  /\ Len(delivered) >= 2
  /\ delivered[1].id = 2
  /\ delivered[2].id = 1
  /\ delivered[1].epoch = delivered[2].epoch

\* C20 (as claimed): without stop_loop() being called, the workers' calls of
\* _get_order_chunk never request more than the maximum_number_epochs + 1
\* permutations the shuffle producer is configured to produce, so a worker
\* that is due to draw a block can draw it (none blocks forever on the
\* producer while holding the cursor lock) and run() terminates.
C20_NeverRequestsMoreThanProduced ==
  (~stop_loop_flag /\ run_pc = "train" /\ tasks_left > 0) =>
    /\ shuffle_producer.taken + GetsOfNextChunk <= num_to_produce
    /\ Cardinality(inflight) < POOL_SIZE => ENABLED GetOrderChunk

\* C15 (as claimed): every training batch put on the hand-off queue has
\* exactly train_batch_size elements in each of users, items and labels, for
\* every combination of batch size and epoch size.
C15_BatchHasTrainBatchSize ==
  \A q \in 1..Len(training_queue) :
    /\ Len(training_queue[q].users) = args.train_batch_size
    /\ Len(training_queue[q].items) = args.train_batch_size
    /\ Len(training_queue[q].labels) = args.train_batch_size

-----------------------------------------------------------------------------
(* Properties of the negative lookup, checked under SpecLookup.            *)

\* the training positives of user u, read off the interaction set
TrainPositivesOf(u) ==
  {args.train_pos_items[k] : k \in {j \in 1..train_pos_count : args.train_pos_users[j] = u}}

\* C3 (as claimed): every item lookup_negative_items returns for a user u is a
\* valid item id in [0, num_items), is not one of u's training positives, and
\* is not the sentinel.
C3_NegativeIsValidAndNotPositive ==
  \A k \in 1..Len(lookup_call.users) :
    /\ lookup_call.items[k] \in 0..(args.num_items - 1)
    /\ lookup_call.items[k] \notin TrainPositivesOf(lookup_call.users[k])
    /\ lookup_call.items[k] # UINT16_MAX

\* the items that are not training positives of user u, in increasing order
ComplementOf(u) ==
  SelectIdx(Arange(args.num_items),
            {k \in 1..args.num_items : (k - 1) \notin TrainPositivesOf(u)}, 1)

\* C16 (as claimed): after construct_lookup_variables, for every user u the
\* table row is left-packed with exactly the items not in u's training
\* positive set followed only by sentinel entries, the sentinel exceeds every
\* valid item id, and count[u] + |positives[u]| = num_items, for every
\* interaction set sorted by user.
C16_RowsAreLeftPackedComplement ==
  negative_table # <<>> =>
    /\ UINT16_MAX > args.num_items - 1
    /\ \A u \in 0..(args.num_users - 1) :
         LET row == At(negative_table, u)
             cnt == At(per_user_neg_count, u)
         IN /\ Len(row) = args.num_items
            /\ cnt + Cardinality(TrainPositivesOf(u)) = args.num_items
            /\ Take(row, cnt) = ComplementOf(u)
            /\ \A k \in (cnt + 1)..Len(row) : row[k] = UINT16_MAX

-----------------------------------------------------------------------------
(* Properties of the eval batches, checked under SpecEval.                 *)

\* row r (1-based) of a flattened eval array
RowOf(flat, r) == SubSeq(flat, (r - 1) * RowWidth + 1, r * RowWidth)

\* the number of users that fall into the user range of eval batch i
UsersInBatch(i) ==
  Max(0, Min(Len(args.eval_pos_users), (i + 1) * eval_users_per_batch)
           - i * eval_users_per_batch)

\* the user and the held-out positive of row r of eval batch i
EvalUserOfRow(i, r) == At(args.eval_pos_users, i * eval_users_per_batch + r - 1)

HeldOutOfRow(i, r) == At(args.eval_pos_items, i * eval_users_per_batch + r - 1)

\* C9 (as claimed): in every non-pad row of every eval batch exactly one
\* column holds the user's held-out positive, and it is the last column.
C9_ExactlyOneColumnIsPositive ==
  \A i \in DOMAIN eval_partial :
    \A r \in 1..UsersInBatch(i) :
      {c \in 1..RowWidth : RowOf(eval_partial[i].items, r)[c] = HeldOutOfRow(i, r)}
        = {RowWidth}

\* C9 (amended): in every non-pad row of every eval batch the last column
\* after the swap holds the user's held-out positive and is not masked, and it
\* is the only unmasked column holding it: every other column equal to the
\* held-out positive is marked in the duplicate mask.
C9_LastColumnIsUnmaskedPositive ==
  \A i \in DOMAIN eval_partial :
    \A r \in 1..UsersInBatch(i) :
      LET row == RowOf(eval_partial[i].items, r)
          mask == RowOf(eval_partial[i].duplicate_mask, r)
      IN /\ row[RowWidth] = HeldOutOfRow(i, r)
         /\ mask[RowWidth] = 0
         /\ \A c \in 1..(RowWidth - 1) : row[c] = HeldOutOfRow(i, r) => mask[c] = 1

\* a row in which one sampled negative is the held-out positive and one is not
C9_Witness ==
  \E i \in DOMAIN eval_partial :
    \E r \in 1..UsersInBatch(i) :
      LET row == RowOf(eval_partial[i].items, r)
      IN /\ row[RowWidth] = HeldOutOfRow(i, r)
         /\ row[1] = HeldOutOfRow(i, r)
         /\ row[2] # HeldOutOfRow(i, r)

ZeroRow == [c \in 1..RowWidth |-> 0]

\* C10: every eval batch has flattened length eval_users_per_batch *
\* (1 + NUM_EVAL_NEGATIVES) in users, items and duplicate mask; the rows past
\* the users of its range (all rows, for a batch past the last user) are zero
\* in all three, as many as the shortfall; the rows before them are the rows
\* _get_eval_batch computed for those users; and eval_batch_size 6 with
\* 5 users gives 3 batches, the last with one zero row.
C10_ShortBatchesZeroPadded ==
  /\ \A i \in DOMAIN eval_partial :
       LET b == eval_partial[i]
           n == UsersInBatch(i)
       IN /\ Len(b.users) = eval_users_per_batch * RowWidth
          /\ Len(b.items) = eval_users_per_batch * RowWidth
          /\ Len(b.duplicate_mask) = eval_users_per_batch * RowWidth
          /\ \A r \in (n + 1)..eval_users_per_batch :
               /\ RowOf(b.users, r) = ZeroRow
               /\ RowOf(b.items, r) = ZeroRow
               /\ RowOf(b.duplicate_mask, r) = ZeroRow
          /\ \A r \in 1..n :
               /\ RowOf(b.users, r) = [c \in 1..RowWidth |-> EvalUserOfRow(i, r)]
               /\ RowOf(b.items, r)[RowWidth] = HeldOutOfRow(i, r)
               /\ \A c \in 1..(RowWidth - 1) :
                    RowOf(b.items, r)[c] \in SampledFor(EvalUserOfRow(i, r))
               /\ RowOf(b.duplicate_mask, r) =
                    SwapFirstLast(MaskDuplicatesRow(SwapFirstLast(RowOf(b.items, r))))
  /\ (args.num_users = 5 /\ args.eval_batch_size = 6 /\ args.batches_per_eval_step = 1
        /\ ~eval_results.none) =>
       /\ Len(eval_results.batches) = 3
       /\ eval_results.batches[3].users = <<4, 4, 4, 0, 0, 0>>

\* the scenario's eval epoch is stored: 3 batches, one zero row in the last
C10_Witness ==
  /\ args.num_users = 5
  /\ args.eval_batch_size = 6
  /\ ~eval_results.none
  /\ Len(eval_results.batches) = 3
  /\ RowOf(eval_results.batches[3].items, 1)[RowWidth] = 1
  /\ RowOf(eval_results.batches[3].items, 2) = ZeroRow

\* eval_generator call p has run to its end
EvalPassComplete(p) == p < eval_gen.pass \/ (p = eval_gen.pass /\ eval_gen.pc = "idle")

\* C11: eval batches are delivered in batch-index order, whatever the order in
\* which the pool workers finish: the k-th batch a call of eval_generator
\* yields is the batch the worker of map_arg k-1 returned, and its non-pad
\* rows are the users at positions [(k-1)*eval_users_per_batch,
\* k*eval_users_per_batch) of eval_pos_users.
C11_EvalYieldedInIndexOrder ==
  \A p \in 1..Len(eval_yielded) :
    \A k \in 1..Len(eval_yielded[p]) :
      /\ (k - 1) \in DOMAIN eval_partial
      /\ eval_yielded[p][k] = eval_partial[k - 1]
      /\ \A r \in 1..UsersInBatch(k - 1) :
           RowOf(eval_yielded[p][k].users, r)[1] = EvalUserOfRow(k - 1, r)
      /\ EvalPassComplete(p) => Len(eval_yielded[p]) = eval_batches_per_epoch

\* the worker of batch 1 finished before the worker of batch 0, and a call of
\* eval_generator has yielded both batches, which differ
C11_Witness ==
  /\ Len(eval_completed) >= 2
  /\ eval_completed[1] = 1
  /\ eval_completed[2] = 0
  /\ Len(eval_yielded) >= 1
  /\ EvalPassComplete(1)
  /\ Len(eval_yielded[1]) = 2
  /\ eval_yielded[1][1] # eval_yielded[1][2]

\* C12: self._eval_results is assigned once and never changed afterwards; a
\* call of eval_generator yields nothing before the result exists; and every
\* complete call, whenever it was made, yielded exactly the stored list, so
\* any two complete calls yielded identical sequences.
C12_EvalResultsWrittenOnce ==
  /\ [](/\ eval_writes <= 1
        /\ eval_results.none <=> eval_writes = 0
        /\ \A p \in 1..Len(eval_yielded) :
             /\ (EvalPassComplete(p) \/ Len(eval_yielded[p]) > 0) => ~eval_results.none
             /\ EvalPassComplete(p) => eval_yielded[p] = eval_results.batches
        /\ \A p, q \in 1..Len(eval_yielded) :
             (EvalPassComplete(p) /\ EvalPassComplete(q)) => eval_yielded[p] = eval_yielded[q])
  /\ [][~eval_results.none => eval_results' = eval_results]_vars

\* two calls of eval_generator are complete, the eval epoch was stored once,
\* and each call yielded the two stored batches
C12_Witness ==
  /\ eval_gen.pass = 2
  /\ eval_gen.pc = "idle"
  /\ Len(eval_yielded[1]) = 2
  /\ Len(eval_yielded[2]) = 2
  /\ eval_writes = 1

\* the column a post-swap column c held before the swap
PreSwapColumn(c) == IF c = 1 THEN RowWidth ELSE IF c = RowWidth THEN 1 ELSE c

\* C18: in every non-pad row of an eval batch the duplicate mask is the one of
\* the row before the swap, in which the true positive is in column 0: the
\* true positive (last column after the swap) is never masked, a sampled
\* negative equal to it is masked instead, and each other column is masked
\* iff its item equals an entry that preceded it in the pre-swap row.
C18_MaskComputedBeforeSwap ==
  \A i \in DOMAIN eval_partial :
    \A r \in 1..UsersInBatch(i) :
      LET row == RowOf(eval_partial[i].items, r)
          mask == RowOf(eval_partial[i].duplicate_mask, r)
          pre == [c \in 1..RowWidth |-> row[PreSwapColumn(c)]]
      IN /\ pre[1] = HeldOutOfRow(i, r)
         /\ mask[RowWidth] = 0
         /\ \A c \in 1..(RowWidth - 1) :
              /\ row[c] = HeldOutOfRow(i, r) => mask[c] = 1
              /\ mask[c] = 1 <=> \E b \in 1..(PreSwapColumn(c) - 1) : pre[b] = row[c]
              /\ mask[c] \in {0, 1}

\* a row whose middle column is a sampled negative equal to the true positive:
\* it is masked, the true positive in the last column and the other negative
\* are not
C18_Witness ==
  \E i \in DOMAIN eval_partial :
    \E r \in 1..UsersInBatch(i) :
      LET row == RowOf(eval_partial[i].items, r)
          mask == RowOf(eval_partial[i].duplicate_mask, r)
      IN /\ row[2] = HeldOutOfRow(i, r)
         /\ row[1] # HeldOutOfRow(i, r)
         /\ mask = <<0, 1, 0>>

-----------------------------------------------------------------------------
(* Properties of construction, checked under SpecEval.                     *)

\* C13: with an eval batch size not divisible by 1 + NUM_EVAL_NEGATIVES the
\* constructor fails with the configuration error before the shuffle producer
\* is created; no thread is ever started and no running or partly
\* initialised object exists: nothing is built, queued or stored, and no
\* method of the object can be called.
C13_ConfigErrorAtConstruction ==
  args.eval_batch_size % (1 + NUM_EVAL_NEGATIVES) # 0 =>
    /\ run_pc \in {"new", "config_error"}
    /\ ~shuffle_producer.created
    /\ ~shuffle_producer.started
    /\ ~shuffle_producer.stopped
    /\ ~stop_loop_flag
    /\ epochs_started = 0
    /\ negative_table = <<>>
    /\ training_queue = <<>>
    /\ eval_results.none
    /\ train_gen.pass = 0
    /\ eval_gen.pass = 0

\* the constructor was called with eval_batch_size 4 and raised
C13_Witness ==
  /\ args.eval_batch_size = 4
  /\ run_pc = "config_error"
  /\ ~shuffle_producer.created

-----------------------------------------------------------------------------
(* Properties of the batch count, checked under SpecCount.                 *)

\* ceil(a / b) for a >= 0, b > 0: the least q with q * b >= a
Ceil(a, b) == CHOOSE q \in 0..a : q * b >= a /\ \A r \in 0..(q - 1) : r * b < a

\* C14: for positive arguments _count_batches returns
\* ceil(ceil(total_examples / batch_size) / batches_per_step) * batches_per_step:
\* a multiple of batches_per_step that is at least ceil(total_examples /
\* batch_size) and exceeds it by less than batches_per_step.
C14_CountBatchesRoundsUpToStep ==
  count_call.returned =>
    LET batches == Ceil(count_call.example_count, count_call.batch_size)
        step == count_call.batches_per_step
    IN /\ count_call.result = Ceil(batches, step) * step
       /\ count_call.result % step = 0
       /\ count_call.result >= batches
       /\ count_call.result - batches < step

\* _count_batches(5, 2, 2) has returned 4: 3 batches rounded up to 2 steps
C14_Witness ==
  /\ count_call.returned
  /\ count_call.example_count = 5
  /\ count_call.batch_size = 2
  /\ count_call.batches_per_step = 2
  /\ count_call.result = 4

====
